---- MODULE Spec2Model ----
(***************************************************************************)
(* A model of csv_wrangler/exporter.py: header bindings, the record-source *)
(* Exporter, SimpleExporter, PassthroughExporter and MultiExporter, with   *)
(* the materialized form (to_list) and the lazy form (to_iter, a generator *)
(* advanced one next() at a time).                                         *)
(*                                                                         *)
(* Representation.  An exporter object is a record                         *)
(*   [kind, headers, header_order, records, fields, data, table,           *)
(*    exporters]                                                           *)
(* holding the attributes of all four classes (the ones a class does not   *)
(* have keep their class-level default).  PassthroughExporter.data is the  *)
(* field "table", SimpleExporter.data the field "data".  header_order is   *)
(* [is_none, list]: Python's None is is_none = TRUE.  A record handed to   *)
(* an extraction callback is [vals, fails]: vals[cb] is what callback cb   *)
(* returns on it, and cb raises on it when cb \in fails.  A dictionary is  *)
(* [keys, val]; a dictionary value is [t, i, b, s] (type tag and payload). *)
(* MultiExporter.exporters is a list of object ids into Objects, so that   *)
(* "exporter != self.exporters[-1]" (object identity, no class defines     *)
(* __eq__) is a comparison of ids.                                         *)
(***************************************************************************)
EXTENDS Integers, Sequences, FiniteSets, TLC

VARIABLES self, gen, pulled, iter_status, last_pull, list_result, first,
          sorted_result

vars == <<self, gen, pulled, iter_status, last_pull, list_result, first,
          sorted_result>>

----------------------------------------------------------------------------
\* Bounds of the input sets.

MaxHeaders == 2
MaxRecords == 2
MaxRows == 2
MaxExporters == 3
MaxSortLen == 3

SeqUpTo(S, n) == UNION {[1..k -> S] : k \in 0..n}

----------------------------------------------------------------------------
\* Values.

Labels == {"a", "b", "c"}

Header(label, callback) == [label |-> label, callback |-> callback]

\* The bindings of DummyExporter, and a fourth one that repeats the label "a"
\* with another extraction function.
HeaderSet ==
  { Header("a", "get_a"), Header("b", "str_b"), Header("c", "str_c"),
    Header("a", "str_c") }

DummyData(a, b, c, fails) ==
  [vals |-> [get_a |-> a, str_b |-> b, str_c |-> c, ident |-> a], fails |-> fails]

\* Two well-formed records and one on which str(x.b) raises.
RecordSet ==
  { DummyData("a", "1", "1.0", {}), DummyData("b", "2", "2.0", {}),
    DummyData("c", "3", "3.0", {"str_b"}) }

NoneOrder == [is_none |-> TRUE, list |-> <<>>]
Order(l) == [is_none |-> FALSE, list |-> l]

PyNone == [t |-> "NoneType", i |-> 0, b |-> FALSE, s |-> ""]
PyInt(n) == [t |-> "int", i |-> n, b |-> FALSE, s |-> ""]
PyBool(x) == [t |-> "bool", i |-> 0, b |-> x, s |-> ""]
PyStr(x) == [t |-> "str", i |-> 0, b |-> FALSE, s |-> x]

\* str(value)
str(v) ==
  CASE v.t = "NoneType" -> "None"
    [] v.t = "int" -> ToString(v.i)
    [] v.t = "bool" -> IF v.b THEN "True" ELSE "False"
    [] v.t = "str" -> v.s

FieldNames == {"a", "b", "c"}

Dict(keys, a, b, c) == [keys |-> keys, val |-> [a |-> a, b |-> b, c |-> c]]

\* record.get(field_name)
dict_get(record, field_name) ==
  IF field_name \in record.keys THEN record.val[field_name] ELSE PyNone

\* The two dictionaries of test_simple_exporter, one of falsy values and
\* the empty dictionary.
DictSet ==
  { Dict({"a", "b", "c"}, PyInt(5), PyNone, PyInt(15)),
    Dict({"a", "b"}, PyInt(1), PyInt(2), PyNone),
    Dict({"a", "b", "c"}, PyInt(0), PyBool(FALSE), PyStr("")),
    Dict({}, PyNone, PyNone, PyNone) }

RowSet == { <<>>, <<"a", "b", "c">>, <<"1", "2", "3">>, <<"d">> }

OrderSamples ==
  { NoneOrder, Order(<<>>), Order(<<"c", "b", "a">>), Order(<<"b", "a">>),
    Order(<<"b", "z", "b">>) }

----------------------------------------------------------------------------
\* Exporter objects.

BaseExporter ==
  [kind |-> "BaseExporter", headers |-> <<>>, header_order |-> NoneOrder,
   records |-> <<>>, fields |-> <<>>, data |-> <<>>, table |-> <<>>,
   exporters |-> <<>>]

\* A concrete subclass of Exporter: its declared headers and what its
\* fetch_records returns.
NewExporter(headers, records, header_order) ==
  [BaseExporter EXCEPT !.kind = "Exporter", !.headers = headers,
                       !.records = records, !.header_order = header_order]

SimpleExporter(fields, data, header_order) ==
  [BaseExporter EXCEPT !.kind = "SimpleExporter", !.fields = fields,
                       !.data = data, !.header_order = header_order]

PassthroughExporter(data, header_order) ==
  [BaseExporter EXCEPT !.kind = "PassthroughExporter", !.table = data,
                       !.header_order = header_order]

MultiExporter(exporters) ==
  [BaseExporter EXCEPT !.kind = "MultiExporter", !.exporters = exporters]

\* The objects a MultiExporter is built over: DummyExporter,
\* SecondDummyExporter, a PassthroughExporter of no rows, and the
\* SimpleExporter of test_simple_exporter.
Objects ==
  <<NewExporter(<<Header("a", "get_a"), Header("b", "str_b"), Header("c", "str_c")>>,
                <<DummyData("a", "1", "1.0", {}), DummyData("b", "2", "2.0", {}),
                  DummyData("c", "3", "3.0", {})>>,
                NoneOrder),
    NewExporter(<<Header("dummy", "ident")>>,
                <<DummyData("llama", "", "", {}), DummyData("drama", "", "", {})>>,
                NoneOrder),
    PassthroughExporter(<<>>, NoneOrder),
    SimpleExporter(<<"a", "b", "c">>,
                   <<Dict({"a", "b", "c"}, PyInt(5), PyNone, PyInt(15)),
                     Dict({"a", "b"}, PyInt(1), PyInt(2), PyNone)>>,
                   NoneOrder)>>

ObjectIds == DOMAIN Objects

----------------------------------------------------------------------------
\* Exporter: headers and their order.

fetch_records(e) == IF e.kind = "SimpleExporter" THEN e.data ELSE e.records

get_headers(e) == e.headers

\* list.index(label): the 0-based position of the first occurrence.
index(list, label) ==
  (CHOOSE i \in 1..Len(list) :
      list[i] = label /\ \A j \in 1..(i - 1) : list[j] # label) - 1

contains(list, label) == \E i \in 1..Len(list) : list[i] = label

\* A mutation of header_key: an unlisted label gets the key -1.
header_key_unlisted_first(header_order, header) ==
  IF contains(header_order, header.label)
  THEN index(header_order, header.label)
  ELSE -1

\* The sort key of sort_headers.
header_key(header_order, header) ==
  IF contains(header_order, header.label)
  THEN index(header_order, header.label)
  ELSE Len(header_order)

\* One insertion of a stable sort: x goes after every element whose key is
\* not greater than its own.
RECURSIVE insert_sorted(_, _, _)
insert_sorted(done, x, header_order) ==
  IF done = <<>> THEN <<x>>
  ELSE IF header_key(header_order, done[Len(done)]) <= header_key(header_order, x)
       THEN Append(done, x)
       ELSE Append(insert_sorted(SubSeq(done, 1, Len(done) - 1), x, header_order),
                   done[Len(done)])

\* sorted(headers, key=...): stable.
RECURSIVE sorted(_, _)
sorted(headers, header_order) ==
  IF headers = <<>> THEN <<>>
  ELSE insert_sorted(sorted(SubSeq(headers, 1, Len(headers) - 1), header_order),
                     headers[Len(headers)], header_order)

sort_headers(e, headers) ==
  IF e.header_order.is_none \/ e.header_order.list = <<>>
  THEN headers
  ELSE sorted(headers, e.header_order.list)

get_sorted_headers(e) == sort_headers(e, get_headers(e))

get_header_labels(e) ==
  [i \in 1..Len(get_sorted_headers(e)) |-> get_sorted_headers(e)[i].label]

----------------------------------------------------------------------------
\* Generators.  A generator object is [pc, obj, records, headers, i, inner]:
\* the exporter it was made from, the locals of its frame, and (MultiExporter)
\* the sub-generator it is delegating to, as a list of length 0 or 1.
\* A call of next() returns [gen, out, row]: the generator afterwards and
\* what the caller gets: a row, StopIteration ("stop") or the exception of
\* a callback ("raise").

NoGen ==
  [pc |-> "none", obj |-> BaseExporter, records |-> <<>>, headers |-> <<>>,
   i |-> 0, inner |-> <<>>]

\* Calling a generator function runs none of its body.
to_iter(e) == [NoGen EXCEPT !.pc = "start", !.obj = e]

Yield(g, row) == [gen |-> g, out |-> "row", row |-> row]
StopIteration(g) == [gen |-> [g EXCEPT !.pc = "done", !.inner = <<>>], out |-> "stop", row |-> <<>>]
Raise(g) == [gen |-> [g EXCEPT !.pc = "done", !.inner = <<>>], out |-> "raise", row |-> <<>>]

\* header.callback(record) of a Header of an Exporter subclass.
callback_raises(header, record) == header.callback \in record.fails
callback(header, record) == record.vals[header.callback]

\* [header.callback(record) for header in headers]
row_raises(headers, record) ==
  \E i \in 1..Len(headers) : callback_raises(headers[i], record)
row_of(headers, record) ==
  [i \in 1..Len(headers) |-> callback(headers[i], record)]

\* A mutation of iter_headers: the data rows are built from the declared
\* order.
iter_headers_declared(e) == get_headers(e)

\* headers = self.get_sorted_headers() in Exporter.to_iter.
iter_headers(e) == get_sorted_headers(e)

\* A mutation of Exporter_loop: a record whose extraction raises is skipped.
RECURSIVE Exporter_loop_skip(_)
Exporter_loop_skip(g) ==
  IF g.i > Len(g.records) THEN StopIteration(g)
  ELSE IF row_raises(g.headers, g.records[g.i])
       THEN Exporter_loop_skip([g EXCEPT !.i = g.i + 1])
       ELSE Yield([g EXCEPT !.i = g.i + 1], row_of(g.headers, g.records[g.i]))

\* for record in records: yield [header.callback(record) for header in headers]
Exporter_loop(g) ==
  IF g.i > Len(g.records) THEN StopIteration(g)
  ELSE IF row_raises(g.headers, g.records[g.i])
       THEN Raise(g)
       ELSE Yield([g EXCEPT !.i = g.i + 1], row_of(g.headers, g.records[g.i]))

\* One next() on the generator of Exporter.to_iter.
Exporter_next(g) ==
  CASE g.pc = "start" ->
         Yield([g EXCEPT !.pc = "loop", !.records = fetch_records(g.obj),
                         !.headers = iter_headers(g.obj), !.i = 1],
               get_header_labels(g.obj))
    [] g.pc = "loop" -> Exporter_loop(g)
    [] OTHER -> StopIteration(g)

\* A mutation of SimpleCallback: django_csv_wrangler's callback,
\* str(record.get(field_name)).
SimpleCallback_django(record, field_name) == str(dict_get(record, field_name))

\* The callback of a SimpleHeader.
SimpleCallback(record, field_name) ==
  IF dict_get(record, field_name) # PyNone
  THEN str(dict_get(record, field_name))
  ELSE ""

get_csv_headers(e) ==
  [i \in 1..Len(e.fields) |-> Header(e.fields[i], "SimpleCallback")]

get_csv_header_labels(e) ==
  [i \in 1..Len(get_csv_headers(e)) |-> get_csv_headers(e)[i].label]

\* One next() on the generator of SimpleExporter.to_iter.
SimpleExporter_next(g) ==
  CASE g.pc = "start" ->
         Yield([g EXCEPT !.pc = "loop", !.records = fetch_records(g.obj),
                         !.headers = get_csv_headers(g.obj), !.i = 1],
               get_csv_header_labels(g.obj))
    [] g.pc = "loop" ->
         IF g.i > Len(g.records) THEN StopIteration(g)
         ELSE Yield([g EXCEPT !.i = g.i + 1],
                    [k \in 1..Len(g.headers) |->
                       SimpleCallback(g.records[g.i], g.headers[k].label)])
    [] OTHER -> StopIteration(g)

\* A mutation of passthrough_rows: empty rows are dropped.
passthrough_rows_nonempty(e) == SelectSeq(e.table, LAMBDA row : row # <<>>)

\* The list PassthroughExporter.to_iter delegates to: self.data.
passthrough_rows(e) == e.table

\* One next() on the generator of PassthroughExporter.to_iter.
PassthroughExporter_next(g) ==
  CASE g.pc = "start" ->
         IF passthrough_rows(g.obj) = <<>> THEN StopIteration(g)
         ELSE Yield([g EXCEPT !.pc = "loop", !.records = passthrough_rows(g.obj), !.i = 2],
                    passthrough_rows(g.obj)[1])
    [] g.pc = "loop" ->
         IF g.i > Len(g.records) THEN StopIteration(g)
         ELSE Yield([g EXCEPT !.i = g.i + 1], g.records[g.i])
    [] OTHER -> StopIteration(g)

\* One next() on the generator of a sub-exporter of a MultiExporter.
Leaf_next(g) ==
  CASE g.obj.kind = "Exporter" -> Exporter_next(g)
    [] g.obj.kind = "SimpleExporter" -> SimpleExporter_next(g)
    [] g.obj.kind = "PassthroughExporter" -> PassthroughExporter_next(g)
    [] OTHER -> StopIteration(g)

\* exporter != self.exporters[-1], for the exporter at position i
not_last(exporters, i) == exporters[i] # exporters[Len(exporters)]

\* MultiExporter.to_iter from the top of the for loop at position i: the
\* sub-generator is made and delegated to; when it is exhausted the
\* separator is yielded, or the loop goes on to position i + 1.
RECURSIVE Multi_for(_, _)
Multi_for(g, i) ==
  IF i > Len(g.obj.exporters) THEN StopIteration(g)
  ELSE LET r == Leaf_next(to_iter(Objects[g.obj.exporters[i]])) IN
       CASE r.out = "row" ->
              Yield([g EXCEPT !.pc = "yield_from", !.i = i, !.inner = <<r.gen>>], r.row)
         [] r.out = "raise" -> Raise(g)
         [] OTHER ->
              IF not_last(g.obj.exporters, i)
              THEN Yield([g EXCEPT !.pc = "separator", !.i = i, !.inner = <<>>], <<>>)
              ELSE Multi_for(g, i + 1)

\* One next() on the generator of MultiExporter.to_iter.
MultiExporter_next(g) ==
  CASE g.pc = "start" -> Multi_for(g, 1)
    [] g.pc = "yield_from" ->
         LET r == Leaf_next(g.inner[1]) IN
         CASE r.out = "row" -> Yield([g EXCEPT !.inner = <<r.gen>>], r.row)
           [] r.out = "raise" -> Raise(g)
           [] OTHER ->
                IF not_last(g.obj.exporters, g.i)
                THEN Yield([g EXCEPT !.pc = "separator", !.inner = <<>>], <<>>)
                ELSE Multi_for(g, g.i + 1)
    [] g.pc = "separator" -> Multi_for(g, g.i + 1)
    [] OTHER -> StopIteration(g)

\* The calls of self.fetch_records() one next() on g makes: the one at the
\* top of the body of Exporter.to_iter and SimpleExporter.to_iter.
fetches(g) ==
  IF g.obj.kind \in {"Exporter", "SimpleExporter"} /\ g.pc = "start" THEN 1 ELSE 0

\* The number of callbacks the list comprehension calls on a record: all of
\* them, or those up to the first one that raises.
called(headers, record) ==
  IF row_raises(headers, record)
  THEN CHOOSE n \in 1..Len(headers) :
         /\ callback_raises(headers[n], record)
         /\ \A m \in 1..(n - 1) : ~callback_raises(headers[m], record)
  ELSE Len(headers)

\* A mutation of extractions: the rows of all records are built before the
\* label row is yielded.
extractions_eager(g) ==
  IF g.obj.kind = "Exporter" /\ g.pc = "start"
  THEN [n \in 1..(Len(fetch_records(g.obj)) * Len(iter_headers(g.obj))) |->
          <<((n - 1) \div Len(iter_headers(g.obj))) + 1,
            ((n - 1) % Len(iter_headers(g.obj))) + 1>>]
  ELSE <<>>

\* The callback calls one next() on g makes, in call order, each as
\* <<position of the record, position of the header>>.
extractions(g) ==
  IF g.pc = "loop" /\ g.i <= Len(g.records)
  THEN CASE g.obj.kind = "Exporter" ->
              [h \in 1..called(g.headers, g.records[g.i]) |-> <<g.i, h>>]
         [] g.obj.kind = "SimpleExporter" ->
              [h \in 1..Len(g.headers) |-> <<g.i, h>>]
         [] OTHER -> <<>>
  ELSE <<>>

\* next(generator)
next(g) ==
  IF g.obj.kind = "MultiExporter" THEN MultiExporter_next(g) ELSE Leaf_next(g)

----------------------------------------------------------------------------
\* The materialized form.  A result is [status, rows]: status "ok" with the
\* rows returned, or "raised" when the call ended in an exception.

NoResult == [status |-> "none", rows |-> <<>>]
Ok(rows) == [status |-> "ok", rows |-> rows]
Raised == [status |-> "raised", rows |-> <<>>]

\* list(generator)
RECURSIVE list(_, _)
list(g, acc) ==
  LET r == next(g) IN
  CASE r.out = "row" -> list(r.gen, Append(acc, r.row))
    [] r.out = "raise" -> Raised
    [] OTHER -> Ok(acc)

\* BaseExporter.to_list
BaseExporter_to_list(e) == list(to_iter(e), <<>>)

\* lambda memo, exporting: exporting if memo == [] else memo + [[]] + exporting
reduce_step(memo, exporting) ==
  IF memo = <<>> THEN exporting ELSE memo \o <<<<>>>> \o exporting

\* reduce(function, exportings, [])
RECURSIVE reduce(_, _)
reduce(exportings, initial) ==
  IF exportings = <<>> THEN initial
  ELSE reduce(Tail(exportings), reduce_step(initial, Head(exportings)))

\* MultiExporter.to_list
MultiExporter_to_list(e) ==
  LET exportings == [i \in 1..Len(e.exporters) |->
                       BaseExporter_to_list(Objects[e.exporters[i]])] IN
  IF \E i \in 1..Len(exportings) : exportings[i].status = "raised"
  THEN Raised
  ELSE Ok(reduce([i \in 1..Len(exportings) |-> exportings[i].rows], <<>>))

to_list(e) ==
  IF e.kind = "MultiExporter" THEN MultiExporter_to_list(e)
  ELSE BaseExporter_to_list(e)

----------------------------------------------------------------------------
\* The state machine.  self is the exporter under use and constructed the
\* exporter as it was constructed; gen is the generator of the latest
\* to_iter() call, pulled the rows it has handed out, iter_status whether it
\* is "active", "exhausted" or "raised", last_pull what the latest next()
\* gave, fetch_calls and extract_calls the calls of self.fetch_records() and
\* of the header callbacks this generator has made; list_result is what the
\* latest to_list() call returned, first what
\* the first finished production returned, sorted_result what the latest
\* get_sorted_headers() call returned.

VARIABLES constructed, fetch_calls, extract_calls

allvars == <<vars, constructed, fetch_calls, extract_calls>>

ExporterInputs ==
  { NewExporter(h, r, o) : h \in SeqUpTo(HeaderSet, MaxHeaders),
                           r \in SeqUpTo(RecordSet, MaxRecords),
                           o \in OrderSamples }

SimpleInputs ==
  { SimpleExporter(f, d, o) : f \in SeqUpTo(FieldNames, MaxHeaders),
                              d \in SeqUpTo(DictSet, MaxRecords),
                              o \in OrderSamples }

PassthroughInputs ==
  { PassthroughExporter(t, o) : t \in SeqUpTo(RowSet, MaxRows), o \in OrderSamples }

MultiInputs ==
  { MultiExporter(l) : l \in SeqUpTo(ObjectIds, MaxExporters) }

SortInputs ==
  { NewExporter(h, <<>>, o) :
      h \in SeqUpTo(HeaderSet, MaxSortLen),
      o \in {NoneOrder} \cup {Order(l) : l \in SeqUpTo(Labels, MaxSortLen)} }

Fresh ==
  /\ constructed = self
  /\ gen = NoGen
  /\ pulled = <<>>
  /\ iter_status = "none"
  /\ last_pull = "none"
  /\ list_result = NoResult
  /\ first = NoResult
  /\ sorted_result = [status |-> "none", headers |-> <<>>]
  /\ fetch_calls = 0
  /\ extract_calls = <<>>

Init ==
  /\ \/ self \in ExporterInputs
     \/ self \in SimpleInputs
     \/ self \in PassthroughInputs
     \/ self \in MultiInputs
  /\ Fresh

\* results = exporter.to_list(), also while a generator is suspended.
ToList ==
  /\ list_result' = to_list(self)
  /\ first' = IF first.status = "none" THEN to_list(self) ELSE first
  /\ UNCHANGED <<self, constructed, gen, pulled, iter_status, last_pull, sorted_result,
                 fetch_calls, extract_calls>>

\* results = exporter.to_iter(): results is bound to a new generator, also
\* while the one it was bound to is suspended.
ToIter ==
  /\ gen' = to_iter(self)
  /\ pulled' = <<>>
  /\ iter_status' = "active"
  /\ last_pull' = "none"
  /\ fetch_calls' = 0
  /\ extract_calls' = <<>>
  /\ UNCHANGED <<self, constructed, list_result, first, sorted_result>>

\* next(results) gives a row
NextRow ==
  /\ gen.pc # "none"
  /\ next(gen).out = "row"
  /\ gen' = next(gen).gen
  /\ pulled' = Append(pulled, next(gen).row)
  /\ last_pull' = "row"
  /\ fetch_calls' = fetch_calls + fetches(gen)
  /\ extract_calls' = extract_calls \o extractions(gen)
  /\ UNCHANGED <<self, constructed, iter_status, list_result, first, sorted_result>>

\* next(results) raises StopIteration
NextStop ==
  /\ gen.pc # "none"
  /\ next(gen).out = "stop"
  /\ gen' = next(gen).gen
  /\ last_pull' = "stop"
  /\ iter_status' = IF iter_status = "active" THEN "exhausted" ELSE iter_status
  /\ first' = IF iter_status = "active" /\ first.status = "none" THEN Ok(pulled) ELSE first
  /\ fetch_calls' = fetch_calls + fetches(gen)
  /\ extract_calls' = extract_calls \o extractions(gen)
  /\ UNCHANGED <<self, constructed, pulled, list_result, sorted_result>>

\* next(results) raises the exception of a callback
NextRaise ==
  /\ gen.pc # "none"
  /\ next(gen).out = "raise"
  /\ gen' = next(gen).gen
  /\ last_pull' = "raise"
  /\ iter_status' = "raised"
  /\ first' = IF first.status = "none" THEN Raised ELSE first
  /\ fetch_calls' = fetch_calls + fetches(gen)
  /\ extract_calls' = extract_calls \o extractions(gen)
  /\ UNCHANGED <<self, constructed, pulled, list_result, sorted_result>>

Next == ToList \/ ToIter \/ NextRow \/ NextStop \/ NextRaise

Spec == Init /\ [][Next]_allvars

\* The header order alone: an Exporter of any declared headers and any
\* header_order, and a call of get_sorted_headers().
InitSort == self \in SortInputs /\ Fresh

GetSortedHeaders ==
  /\ self.kind = "Exporter"
  /\ sorted_result' = [status |-> "ok", headers |-> get_sorted_headers(self)]
  /\ UNCHANGED <<self, constructed, gen, pulled, iter_status, last_pull, list_result, first,
                 fetch_calls, extract_calls>>

NextSort == GetSortedHeaders

SpecSort == InitSort /\ [][NextSort]_allvars

----------------------------------------------------------------------------
\* What the claims speak of.

\* The rows of the sub-exports of a MultiExporter, in list order.
SubExports(e) ==
  [i \in 1..Len(e.exporters) |-> BaseExporter_to_list(Objects[e.exporters[i]]).rows]

\* The sub-exports one after the other, one empty row after each but the
\* last position.
RECURSIVE Composite(_)
Composite(exportings) ==
  IF exportings = <<>> THEN <<>>
  ELSE IF Len(exportings) = 1 THEN exportings[1]
       ELSE Head(exportings) \o <<<<>>>> \o Composite(Tail(exportings))

RECURSIVE SumLen(_)
SumLen(exportings) ==
  IF exportings = <<>> THEN 0 ELSE Len(Head(exportings)) + SumLen(Tail(exportings))

\* The headers whose label is order[i], in declaration order, when order[i]
\* is not listed earlier in order; then the same for i + 1, ...
RECURSIVE ListedFrom(_, _, _)
ListedFrom(headers, order, i) ==
  IF i > Len(order) THEN <<>>
  ELSE (IF \E j \in 1..(i - 1) : order[j] = order[i]
        THEN <<>>
        ELSE SelectSeq(headers, LAMBDA h : h.label = order[i]))
       \o ListedFrom(headers, order, i + 1)

\* Listed labels first in the order listed, then the unlisted headers in
\* declaration order.
PreferredOrder(headers, header_order) ==
  IF header_order.is_none THEN headers
  ELSE ListedFrom(headers, header_order.list, 1)
       \o SelectSeq(headers, LAMBDA h : ~contains(header_order.list, h.label))

Count(seq, x) == Cardinality({i \in 1..Len(seq) : seq[i] = x})

IsPermutation(s, t) ==
  /\ Len(s) = Len(t)
  /\ \A i \in 1..Len(t) : Count(s, t[i]) = Count(t, t[i])

LabelsOf(headers) == [i \in 1..Len(headers) |-> headers[i].label]

IsPrefix(s, t) == Len(s) <= Len(t) /\ \A i \in 1..Len(s) : s[i] = t[i]

\* The export of a record-source Exporter whose callbacks raise on no record.
ExpectedExport(e) ==
  <<LabelsOf(get_sorted_headers(e))>> \o
  [j \in 1..Len(e.records) |->
     [i \in 1..Len(get_sorted_headers(e)) |->
        e.records[j].vals[get_sorted_headers(e)[i].callback]]]

\* The records on which some declared callback raises.
Failing(e) ==
  {j \in 1..Len(e.records) : \E i \in 1..Len(e.headers) :
                                e.headers[i].callback \in e.records[j].fails}

FirstFailing(e) == CHOOSE k \in Failing(e) : \A j \in Failing(e) : k <= j

\* The cell of the Field-Keyed exporter for field f of record r.
ExpectedCell(r, f) ==
  IF f \notin r.keys \/ r.val[f].t = "NoneType" THEN ""
  ELSE CASE r.val[f] = PyInt(0) -> "0"
         [] r.val[f] = PyBool(FALSE) -> "False"
         [] r.val[f] = PyStr("") -> ""
         [] OTHER -> str(r.val[f])

----------------------------------------------------------------------------
\* C1: for every exporter, the rows to_list() returns are the rows to_iter()
\* hands out until it is exhausted, on the same exporter state.
C1_ListIsIter ==
  (list_result.status = "ok" /\ iter_status = "exhausted")
    => list_result.rows = pulled

\* C2: the lazy form of a MultiExporter over n >= 1 sub-exporters hands out
\* each sub-export in list order with exactly one empty row after every
\* position i < n and none after position n, whatever exporter stands at
\* which position.
C2_IterSeparatesByPosition ==
  (self.kind = "MultiExporter" /\ Len(self.exporters) >= 1 /\ iter_status = "exhausted")
    => /\ pulled = Composite(SubExports(self))
       /\ Len(pulled) = SumLen(SubExports(self)) + Len(self.exporters) - 1

\* C3: the materialized form of a MultiExporter over n sub-exporters is the
\* sub-exports in list order with max(n-1, 0) separator rows, one at each
\* junction, also after a sub-export of zero rows; n = 0 gives no rows.
C3_ListSeparatesJunctions ==
  (self.kind = "MultiExporter" /\ list_result.status = "ok")
    => /\ list_result.rows = Composite(SubExports(self))
       /\ Len(self.exporters) = 0 => list_result.rows = <<>>
       /\ Len(self.exporters) >= 1 =>
            Len(list_result.rows) = SumLen(SubExports(self)) + Len(self.exporters) - 1

\* C4: get_sorted_headers() returns a permutation of the declared headers:
\* the headers whose label header_order lists come first in the order
\* listed, then the unlisted ones in declaration order; with no preference
\* (None or empty) the declared order is returned.
C4_SortedHeaders ==
  sorted_result.status = "ok"
    => /\ IsPermutation(sorted_result.headers, self.headers)
       /\ sorted_result.headers = PreferredOrder(self.headers, self.header_order)
       /\ (self.header_order.is_none \/ self.header_order.list = <<>>)
            => sorted_result.headers = self.headers

\* A header order that lists a label twice and a label not declared, over
\* declared headers with a repeated label, has been applied and has moved
\* headers.
C4_Witness ==
  /\ sorted_result.status = "ok"
  /\ self.headers = <<Header("a", "get_a"), Header("c", "str_c"), Header("a", "str_c")>>
  /\ self.header_order = Order(<<"c", "b", "c">>)
  /\ sorted_result.headers = <<Header("c", "str_c"), Header("a", "get_a"), Header("a", "str_c")>>

\* C5: the export of a record-source Exporter is the label row and then one
\* row per record in fetch_records() order, each as wide as the label row,
\* its i-th cell the i-th sorted header's callback applied to the record.
C5_ExporterRows ==
  self.kind = "Exporter"
    => /\ list_result.status = "ok" =>
            /\ list_result.rows = ExpectedExport(self)
            /\ Len(list_result.rows) = 1 + Len(self.records)
            /\ \A j \in 1..Len(list_result.rows) :
                 Len(list_result.rows[j]) = Len(list_result.rows[1])
       /\ IsPrefix(pulled, ExpectedExport(self))
       /\ iter_status = "exhausted" => pulled = ExpectedExport(self)

\* An Exporter whose header_order reorders its two headers has exported two
\* records in both forms.
C5_Witness ==
  /\ self.kind = "Exporter"
  /\ self.headers = <<Header("a", "get_a"), Header("b", "str_b")>>
  /\ self.header_order = Order(<<"b", "a">>)
  /\ list_result = Ok(<<<<"b", "a">>, <<"1", "a">>, <<"2", "b">>>>)
  /\ iter_status = "exhausted"
  /\ pulled = list_result.rows

\* C6: the cell of SimpleExporter for field f of record r is "" when f is
\* absent from r or r[f] is None, and str(r[f]) otherwise: 0 gives "0",
\* False gives "False", "" gives ""; a repeated field gives repeated columns.
C6_SimpleCells ==
  self.kind = "SimpleExporter"
    => /\ list_result.status # "raised"
       /\ list_result.status = "ok" =>
            /\ Len(list_result.rows) = 1 + Len(self.data)
            /\ IsPermutation(list_result.rows[1], self.fields)
            /\ \A j \in 1..Len(self.data) :
                 /\ Len(list_result.rows[j + 1]) = Len(self.fields)
                 /\ \A i \in 1..Len(self.fields) :
                      list_result.rows[j + 1][i] =
                        ExpectedCell(self.data[j], list_result.rows[1][i])
       /\ \A j \in 2..Len(pulled) : \A i \in 1..Len(pulled[j]) :
            pulled[j][i] = ExpectedCell(self.data[j - 1], pulled[1][i])

\* A record of falsy values and a record without the field have been
\* exported under a repeated field name.
C6_Witness ==
  /\ self.kind = "SimpleExporter"
  /\ self.fields = <<"b", "b">>
  /\ self.data = <<Dict({"a", "b", "c"}, PyInt(0), PyBool(FALSE), PyStr("")),
                   Dict({}, PyNone, PyNone, PyNone)>>
  /\ list_result = Ok(<<<<"b", "b">>, <<"False", "False">>, <<"", "">>>>)
  /\ iter_status = "exhausted"

\* C7: header_order applies to the fields of a SimpleExporter as it does to
\* the headers of an Exporter: the label row and every data row have the
\* listed fields first in the order listed, then the unlisted ones.
C7_SimpleHonoursHeaderOrder ==
  (self.kind = "SimpleExporter" /\ list_result.status = "ok")
    => LET labels == LabelsOf(PreferredOrder(get_csv_headers(self), self.header_order)) IN
       /\ list_result.rows[1] = labels
       /\ \A j \in 1..Len(self.data) : \A i \in 1..Len(labels) :
            list_result.rows[j + 1][i] = ExpectedCell(self.data[j], labels[i])

\* C8: to_list() and to_iter() of a PassthroughExporter give the input rows
\* in input order, nothing added, dropped, reordered or altered, whatever
\* header_order is set on it.
C8_Passthrough ==
  self.kind = "PassthroughExporter"
    => /\ list_result.status # "raised" /\ iter_status # "raised"
       /\ list_result.status = "ok" => list_result.rows = self.table
       /\ IsPrefix(pulled, self.table)
       /\ iter_status = "exhausted" => pulled = self.table

\* A table with an empty row and rows of differing widths has been exported
\* in both forms under a header_order.
C8_Witness ==
  /\ self.kind = "PassthroughExporter"
  /\ self.header_order = Order(<<"c", "b", "a">>)
  /\ self.table = <<<<>>, <<"a", "b", "c">>>>
  /\ list_result = Ok(self.table)
  /\ iter_status = "exhausted"
  /\ pulled = self.table

\* C9: after any sequence of to_list() and to_iter() productions the
\* exporter's own state is as constructed and every production has returned
\* the rows the first one returned.
C9_Idempotent ==
  /\ self = constructed
  /\ first.status = "ok" =>
       /\ list_result.status = "ok" => list_result.rows = first.rows
       /\ iter_status = "exhausted" => pulled = first.rows

\* C10: when the extraction first fails on record k, the caller of the lazy
\* form gets the label row and the rows of records 1..k-1, then the failure
\* on the next pull, and no row after it; no record is skipped.
C10_FailurePropagates ==
  (self.kind = "Exporter" /\ Failing(self) # {})
    => LET k == FirstFailing(self) IN
       /\ iter_status # "exhausted"
       /\ iter_status \in {"active", "raised"} =>
            /\ Len(pulled) <= k
            /\ pulled = SubSeq(ExpectedExport(self), 1, Len(pulled))
       /\ (iter_status = "active" /\ Len(pulled) = k) => next(gen).out = "raise"
       /\ iter_status = "raised" =>
            /\ Len(pulled) = k
            /\ next(gen).out = "stop"
       /\ last_pull = "raise" => iter_status = "raised"

\* The extraction failed on the second record; the caller holds the label
\* row and the first record's row and has pulled once more since.
C10_Witness ==
  /\ self.kind = "Exporter"
  /\ Failing(self) = {2}
  /\ iter_status = "raised"
  /\ last_pull = "stop"
  /\ pulled = <<<<"b", "a">>, <<"1", "a">>>>

\* The callback calls on the first n records, every header once per record.
CalledOnce(calls, e, n) ==
  /\ Len(calls) = n * Len(e.headers)
  /\ \A r \in 1..Len(e.records) : \A h \in 1..Len(e.headers) :
       Count(calls, <<r, h>>) = IF r <= n THEN 1 ELSE 0

\* C11: the lazy form of a record-source Exporter works on demand: after
\* to_iter() alone neither fetch_records nor any callback has been called;
\* once j >= 1 rows have been pulled, fetch_records has been called exactly
\* once by this production and every header's callback exactly once on each
\* of the first j-1 records and on no other; this holds of every new
\* production again.
C11_LazyOnDemand ==
  self.kind = "Exporter"
    => /\ (iter_status = "active" /\ pulled = <<>>) =>
            fetch_calls = 0 /\ extract_calls = <<>>
       /\ (iter_status \in {"active", "exhausted"} /\ Len(pulled) >= 1) =>
            /\ fetch_calls = 1
            /\ CalledOnce(extract_calls, self, Len(pulled) - 1)
       /\ iter_status = "raised" =>
            /\ fetch_calls = 1
            /\ CalledOnce(SubSeq(extract_calls, 1, (Len(pulled) - 1) * Len(self.headers)),
                          self, Len(pulled) - 1)

\* A second production of an Exporter of two headers and two records: two
\* rows have been pulled, and the callbacks have been called on the first
\* record alone.
C11_Witness ==
  /\ self.kind = "Exporter"
  /\ Len(self.headers) = 2 /\ Len(self.records) = 2
  /\ first.status = "ok"
  /\ iter_status = "active"
  /\ Len(pulled) = 2
  /\ fetch_calls = 1
  /\ extract_calls = <<<<1, 1>>, <<1, 2>>>>

====
